---- MODULE Spec2Model ----
(***************************************************************************)
(* Model of GPT-Scan-Strava: the GPTVisionLoader retry/backoff client (two *)
(* copies live in the repository: the services loader, which normalises    *)
(* the response content, and the root loader, which returns it verbatim)   *)
(* and the ImageProcessor tiling arithmetic.                               *)
(***************************************************************************)
EXTENDS Integers, Sequences, FiniteSets, TLC

\* ------------------------------------------------------------------ bounds
MaxRetriesCap == 3      \* largest maxRetries value passed to the constructor
MaxBatch == 2           \* longest imagePaths list given to analyzeMultipleImages
MaxContentLen == 4      \* longest response content, in lexical tokens
MaxImages == 3          \* largest number of images handed to one merge
MaxDim == 3             \* largest image width / height, in pixels
MaxMargin == 1          \* largest margin option
MaxPerRow == 2          \* largest maxImagesPerRow option
MaxFolders == 2         \* largest number of user folders under public/images
MaxCalls == 2           \* largest number of interleaved analyzeImage calls

\* ------------------------------------------------------- program constants
DefaultMaxRetries == 3
DefaultInitialRetryDelay == 1000
DefaultGridPerRow == 3

VARIABLES
  \* ---- GPTVisionLoader
  variant,            \* "services" (normalising copy) or "root" (verbatim copy)
  maxRetries,         \* this.maxRetries
  initialRetryDelay,  \* this.initialRetryDelay
  imagePaths,         \* argument of analyzeMultipleImages
  results,            \* local `results` of analyzeMultipleImages
  idx,                \* position of the for-of loop over imagePaths (1-based)
  pc,                 \* control point of the batch / the current analyzeImage call
  retries,            \* local `retries` of the current analyzeImage call
  attempts,           \* iterations of the while(true) loop started in this call
  requests,           \* remote requests issued in this call
  delays,             \* arguments of this.sleep in this call, in order
  fails,              \* failed attempts of this call
  plainRetryable,     \* failed attempts of this call that were non-quota with status 429/500/503
  lastError,          \* error caught by the most recent failed attempt
  lastContent,        \* content of the most recent successful response
  callResult,         \* value returned / error thrown by the current analyzeImage call
  \* ---- ImageProcessor
  images,             \* the loaded images: path, width, height
  direction,          \* options.direction
  margin,             \* options.margin
  maxImagesPerRow,    \* options.maxImagesPerRow, 0 when absent
  layout,             \* which merge routine ran: "none" before any
  canvas,             \* the create: { width, height } handed to sharp
  composite,          \* the { left, top } list handed to .composite()
  imagesByRow,        \* rows built by mergeImagesInGrid
  rowDimensions,      \* their { width, height }
  \* ---- ImageProcessor.mergeImagesInFolder
  folderExists,       \* fs.existsSync(folderPath)
  files,              \* fs.readdirSync(folderPath): extension, decodable, size
  outputFormat,       \* options.outputFormat
  mergeResult,        \* the MergedImageResult returned, once there is one
  written,            \* the composite file written by this call, if any
  \* ---- processImages (main.ts)
  mstage,             \* control point of processImages
  imagesDirExists,    \* fs.existsSync(imagesDir)
  userFolders,        \* the user folders found, in directory order
  mergedExists,       \* per user folder: the merged horizontal image is on disk
  mi,                 \* position of the current for-of loop over userFolders
  quotaExceeded,      \* let quotaExceeded
  allResults,         \* const allResults: keys and their entry lists
  resultsFile,        \* whether results.json was written, and what it holds
  \* ---- analyzeImage calls running interleaved on one loader
  calls,              \* per call: its control point and its locals
  \* ---- POST handler of pages/api/images.ts
  hstage,             \* control point of the handler
  userId,             \* req.query.userId
  openaiApiKey,       \* whether process.env.OPENAI_API_KEY is set
  response,           \* the response sent, once there is one
  userResultsFile     \* data/<userId>-results.json: absent, left by an earlier run, or written

loaderVars == <<variant, maxRetries, initialRetryDelay, imagePaths, results, idx, pc,
                retries, attempts, requests, delays, fails, plainRetryable,
                lastError, lastContent, callResult>>
layoutVars == <<images, direction, margin, maxImagesPerRow, layout, canvas, composite,
                imagesByRow, rowDimensions>>
folderVars == <<folderExists, files, outputFormat, mergeResult, written>>
mainVars == <<mstage, imagesDirExists, userFolders, mergedExists, mi, quotaExceeded,
              allResults, resultsFile>>
concVars == <<calls>>
handlerVars == <<hstage, userId, openaiApiKey, response, userResultsFile>>
vars == <<loaderVars, layoutVars, folderVars, mainVars, concVars, handlerVars>>

\* what the steps of one component leave alone
notLoaderVars == <<layoutVars, folderVars, mainVars, concVars, handlerVars>>
notLayoutVars == <<loaderVars, folderVars, mainVars, concVars, handlerVars>>

\* ------------------------------------------------------------ small helpers
RECURSIVE Pow2(_)
Pow2(n) == IF n <= 0 THEN 1 ELSE 2 * Pow2(n - 1)

RECURSIVE SumSeq(_)
SumSeq(s) == IF s = <<>> THEN 0 ELSE Head(s) + SumSeq(Tail(s))

MaxOf(S) == CHOOSE m \in S : \A x \in S : x <= m

Min2(a, b) == IF a < b THEN a ELSE b

RECURSIVE SeqsUpTo(_, _)
SeqsUpTo(S, n) ==
  IF n = 0 THEN {<<>>}
  ELSE LET shorter == SeqsUpTo(S, n - 1)
       IN  shorter \cup {Append(s, x) : s \in {t \in shorter : Len(t) = n - 1}, x \in S}

\* --------------------------------------------------- response content model
\* A content string is a sequence of lexical tokens:
\*   "F" a ``` fence, "J" the word json, "{" "}" braces, "k" the members of an
\*   object, "n" a JSON scalar, "W" whitespace, "x" other prose,
\*   "P" the marker "Parsed Result:" preceded by its check mark.
Tokens == {"F", "J", "{", "}", "k", "n", "W", "x", "P"}

NullContent == <<"null">>     \* response.choices[0]?.message?.content absent

SubSeqFrom(s, i) == SubSeq(s, i, Len(s))

\* String.prototype.trim
RECURSIVE TrimLeft(_)
TrimLeft(s) == IF s # <<>> /\ Head(s) = "W" THEN TrimLeft(Tail(s)) ELSE s

RECURSIVE TrimRight(_)
TrimRight(s) ==
  IF s # <<>> /\ s[Len(s)] = "W" THEN TrimRight(SubSeq(s, 1, Len(s) - 1)) ELSE s

Trim(s) == TrimRight(TrimLeft(s))

\* position of the first fence at or after `from`, 0 when there is none
FenceFrom(s, from) ==
  IF \E i \in from..Len(s) : s[i] = "F"
  THEN CHOOSE i \in from..Len(s) : s[i] = "F" /\ \A j \in from..(i - 1) : s[j] # "F"
  ELSE 0

\* the regular expression ```(?:json)?([\s\S]*?)``` applied at the start of s:
\* s must open with a fence; group 1 is the lazy capture up to the next fence
FencedAtStart(s) ==
  IF s = <<>> \/ Head(s) # "F" THEN [found |-> FALSE, body |-> <<>>]
  ELSE LET b == IF Len(s) >= 2 /\ s[2] = "J" THEN 3 ELSE 2
           e == FenceFrom(s, b)
       IN  IF e = 0 THEN [found |-> FALSE, body |-> <<>>]
           ELSE [found |-> TRUE, body |-> SubSeq(s, b, e - 1)]

\* content.match(/```(?:json)?([\s\S]*?)```/) : leftmost match
JsonMatch(content) ==
  LET i == FenceFrom(content, 1)
  IN  IF i = 0 THEN [found |-> FALSE, body |-> <<>>]
      ELSE FencedAtStart(SubSeqFrom(content, i))

\* content.match(/<mark>\s*Parsed\s*Result:\s*(?:```(?:json)?([\s\S]*?)```|([\s\S]*))/i)
\* g1 / g2 are the capture groups, has1 / has2 tell whether they took part
ParsedResultMatch(content) ==
  IF ~ \E i \in 1..Len(content) : content[i] = "P"
  THEN [found |-> FALSE, has1 |-> FALSE, g1 |-> <<>>, has2 |-> FALSE, g2 |-> <<>>]
  ELSE LET i == CHOOSE i \in 1..Len(content) :
                  content[i] = "P" /\ \A j \in 1..(i - 1) : content[j] # "P"
           rest == TrimLeft(SubSeqFrom(content, i + 1))
           f == FencedAtStart(rest)
       IN  IF f.found
           THEN [found |-> TRUE, has1 |-> TRUE, g1 |-> f.body, has2 |-> FALSE, g2 |-> <<>>]
           ELSE [found |-> TRUE, has1 |-> FALSE, g1 |-> <<>>, has2 |-> TRUE, g2 |-> rest]

\* JSON.parse: whitespace between tokens is insignificant; the documents of
\* this token language are the empty object, an object with members, a scalar
StripWs(s) == SelectSeq(s, LAMBDA t : t # "W")

JsonDocuments == {<<"{", "}">>, <<"{", "k", "}">>, <<"n">>}

JsonParse(s) ==
  IF StripWs(s) \in JsonDocuments
  THEN [ok |-> TRUE, value |-> StripWs(s)]
  ELSE [ok |-> FALSE, value |-> <<>>]

\* values a call can return
JsonValue(v) == [kind |-> "json", text |-> v]
RawText(c) == [kind |-> "raw", text |-> c]
NullValue == [kind |-> "null", text |-> <<>>]

Truthy(content) == content # NullContent /\ content # <<>>

StartsEndsBrace(s) ==
  LET t == Trim(s) IN t # <<>> /\ Head(t) = "{" /\ t[Len(t)] = "}"

\* variant of ParseOrRaw whose fallback is the extracted text, not the content
ParseOrRawExtracted(text, content) ==
  IF JsonParse(text).ok THEN JsonValue(JsonParse(text).value) ELSE RawText(text)

ParseOrRaw(text, content) ==
  IF JsonParse(text).ok THEN JsonValue(JsonParse(text).value) ELSE RawText(content)

\* (parsedResultMatch[1] || parsedResultMatch[2]).trim(), then JSON.parse;
\* an empty group 1 leaves undefined.trim(), a TypeError the catch absorbs
ExtractedOrRaw(m, content) ==
  IF m.has1 /\ m.g1 # <<>> THEN ParseOrRaw(Trim(m.g1), content)
  ELSE IF m.has2 THEN ParseOrRaw(Trim(m.g2), content)
  ELSE RawText(content)

\* the inner try / catch of the services loader
NormalizeContent(content) ==
  IF ~Truthy(content) THEN NullValue
  ELSE LET jm == JsonMatch(content)
           jsonString == IF jm.found THEN Trim(jm.body) ELSE content
           pm == ParsedResultMatch(content)
       IN  IF StartsEndsBrace(jsonString) THEN ParseOrRaw(jsonString, content)
           ELSE IF pm.found THEN ExtractedOrRaw(pm, content)
           ELSE ParseOrRaw(jsonString, content)

\* what the root loader returns: the content itself
VerbatimContent(content) ==
  IF content = NullContent THEN NullValue ELSE RawText(content)

ReturnValue(v, content) ==
  IF v = "services" THEN NormalizeContent(content) ELSE VerbatimContent(content)


\* ------------------------------------------------------- GPTVisionLoader
Variants == {"services", "root"}
Paths == {"a.jpg", "b.jpg"}
InitialDelays == {DefaultInitialRetryDelay, 250}

\* errors the awaited create() call can reject with
ErrorStatuses == {0, 400, 429, 500, 503}      \* 0: the error carries no status
ErrorTypes == {"insufficient_quota", "server_error"}
QuotaMessage == "You exceeded your current quota"
ErrorMessages == {"", "boom", QuotaMessage}

RemoteError(st, ty, msg, n) ==
  [name |-> "Error", status |-> st, type |-> ty, message |-> msg, seq |-> n]

\* fs.readFileSync throwing inside the try block
ReadError(n) ==
  [name |-> "Error", status |-> 0, type |-> "", message |-> "ENOENT", seq |-> n]

QuotaErrorText == "OpenAI API quota exceeded. Please check your billing details"

QuotaExceededError ==
  [name |-> "QuotaExceededError", status |-> 0, type |-> "",
   message |-> QuotaErrorText, seq |-> 0]

NoError == [name |-> "", status |-> 0, type |-> "", message |-> "", seq |-> 0]

\* String.prototype.includes("quota") over the messages that occur
IncludesQuota(msg) == msg \in {QuotaMessage, QuotaErrorText}

\* variant of IsQuotaSignal that looks at the error type only
IsQuotaSignalTypeOnly(e) == e.type = "insufficient_quota"

\* error.error?.type === "insufficient_quota" || (error.message && error.message.includes("quota"))
IsQuotaSignal(e) ==
  e.type = "insufficient_quota" \/ (e.message # "" /\ IncludesQuota(e.message))

\* variant of RetryableStatus that also retries client errors
RetryableStatusWithClientError(st) == st = 400 \/ st = 429 \/ st = 500 \/ st = 503

\* error.status === 429 || error.status === 500 || error.status === 503
RetryableStatus(st) == st = 429 \/ st = 500 \/ st = 503

\* the second if of the catch block
ShouldRetry(e, r, mx) == RetryableStatus(e.status) /\ r < mx

\* variant of BackoffDelay whose exponent is the incremented retry count
BackoffDelayFromRetries(initial, r) == initial * Pow2(r)

\* variant of BackoffDelay that grows linearly
BackoffDelayLinear(initial, r) == initial * r

\* this.initialRetryDelay * Math.pow(2, retries - 1), retries already incremented
BackoffDelay(initial, r) == initial * Pow2(r - 1)

SampleContents ==
  {NullContent, <<>>, <<"x">>, <<"{", "k", "}">>, <<"F", "J", "W", "{", "k", "}", "W", "F">>}

\* values of "nothing yet"
NoResult == [pending |-> TRUE]
NoFile == [ext |-> "", encoding |-> ""]

\* no mergeImagesInFolder call is under way
FolderIdle ==
  /\ folderExists = TRUE /\ files = <<>> /\ outputFormat = "jpeg"
  /\ mergeResult = NoResult /\ written = NoFile

\* processImages is not running
MainIdle ==
  /\ mstage = "idle" /\ imagesDirExists = TRUE /\ userFolders = <<>>
  /\ mergedExists = <<>> /\ mi = 1 /\ quotaExceeded = FALSE
  /\ allResults = <<>> /\ resultsFile = [written |-> FALSE, content |-> <<>>]

\* no interleaved calls are running
ConcIdle == calls = <<>>

\* no response sent, no results file
NoResponse == [sent |-> FALSE]
NoUserResults == [state |-> "absent"]

\* the handler is not running
HandlerIdle ==
  /\ hstage = "idle" /\ userId = [kind |-> "absent"] /\ openaiApiKey = FALSE
  /\ response = NoResponse /\ userResultsFile = NoUserResults

\* no merge is under way
LayoutIdle ==
  /\ images = <<>> /\ direction = "vertical" /\ margin = 0 /\ maxImagesPerRow = 0
  /\ layout = "none"
  /\ canvas = [width |-> 0, height |-> 0] /\ composite = <<>>
  /\ imagesByRow = <<>> /\ rowDimensions = <<>>

\* new GPTVisionLoader(apiKey, maxRetries, initialRetryDelay), then
\* analyzeMultipleImages(imagePaths) entered: results = []
Init ==
  /\ variant \in Variants
  /\ maxRetries \in 0..MaxRetriesCap
  /\ initialRetryDelay \in InitialDelays
  /\ imagePaths \in SeqsUpTo(Paths, MaxBatch)
  /\ results = <<>>
  /\ idx = 1
  /\ pc = "loop"
  /\ retries = 0 /\ attempts = 0 /\ requests = 0 /\ delays = <<>>
  /\ fails = 0 /\ plainRetryable = 0
  /\ lastError = NoError /\ lastContent = NullContent /\ callResult = NullValue
  /\ LayoutIdle /\ FolderIdle /\ MainIdle /\ ConcIdle /\ HandlerIdle

batchVars == <<imagePaths, results, idx>>
configVars == <<variant, maxRetries, initialRetryDelay>>

\* for (const imagePath of imagePaths) { try { await this.analyzeImage(imagePath)
\* ... let retries = 0; while (true) {
CallAnalyzeImage ==
  /\ pc = "loop" /\ idx <= Len(imagePaths)
  /\ pc' = "attempting"
  /\ retries' = 0 /\ attempts' = 0 /\ requests' = 0 /\ delays' = <<>>
  /\ fails' = 0 /\ plainRetryable' = 0
  /\ lastError' = NoError /\ lastContent' = NullContent /\ callResult' = NullValue
  /\ UNCHANGED <<configVars, batchVars, notLoaderVars>>

\* which branch of the catch block an error takes: the quota test comes first,
\* then the retry test, else the error is rethrown
CatchOutcome(e, r, mx) ==
  IF IsQuotaSignal(e) THEN "quota"
  ELSE IF ShouldRetry(e, r, mx) THEN "retry"
  ELSE "raise"

\* variant of RaisedError that wraps the caught error in a new one
RaisedErrorWrapped(e) ==
  [name |-> "Error", status |-> 0, type |-> "", message |-> "Image analysis failed", seq |-> 0]

\* throw error
RaisedError(e) == e

\* the catch (error) block of analyzeImage
CatchError(e) ==
  /\ lastError' = e
  /\ fails' = fails + 1
  /\ plainRetryable' = IF RetryableStatus(e.status) /\ ~IsQuotaSignal(e)
                       THEN plainRetryable + 1 ELSE plainRetryable
  /\ LET branch == CatchOutcome(e, retries, maxRetries)
     IN  CASE branch = "quota" ->
                /\ callResult' = QuotaExceededError
                /\ pc' = "threw"
                /\ UNCHANGED <<retries, delays>>
           [] branch = "retry" ->
                /\ retries' = retries + 1
                /\ delays' = Append(delays, BackoffDelay(initialRetryDelay, retries + 1))
                /\ pc' = "sleeping"
                /\ UNCHANGED callResult
           [] OTHER ->
                /\ callResult' = RaisedError(e)
                /\ pc' = "threw"
                /\ UNCHANGED <<retries, delays>>

\* fs.readFileSync succeeds and the request is issued: await create(...)
IssueRequest ==
  /\ pc = "attempting"
  /\ attempts' = attempts + 1
  /\ requests' = requests + 1
  /\ pc' = "inflight"
  /\ UNCHANGED <<configVars, batchVars, retries, delays, fails, plainRetryable,
                 lastError, lastContent, callResult, notLoaderVars>>

\* fs.readFileSync throws: no request is issued, the catch block runs
ReadFails ==
  /\ pc = "attempting"
  /\ attempts' = attempts + 1
  /\ CatchError(ReadError(attempts + 1))
  /\ UNCHANGED <<configVars, batchVars, requests, lastContent, notLoaderVars>>

\* the request resolves: content is read and the call returns
Succeed(c) ==
  /\ lastContent' = c
  /\ callResult' = ReturnValue(variant, c)
  /\ pc' = "returned"
  /\ UNCHANGED <<configVars, batchVars, retries, attempts, requests, delays, fails,
                 plainRetryable, lastError, notLoaderVars>>

RequestSucceeds ==
  /\ pc = "inflight"
  /\ \E c \in SampleContents : Succeed(c)

\* the request rejects: the catch block runs
RequestFails ==
  /\ pc = "inflight"
  /\ \E st \in ErrorStatuses, ty \in ErrorTypes, msg \in ErrorMessages :
       CatchError(RemoteError(st, ty, msg, attempts))
  /\ UNCHANGED <<configVars, batchVars, attempts, requests, lastContent,
                 notLoaderVars>>

\* variant of SleepDone in which the batch moves on to the next item while
\* the current one is waiting for its retry
SleepDoneNextItem ==
  /\ pc = "sleeping"
  /\ idx' = idx + 1
  /\ pc' = "loop"
  /\ UNCHANGED <<configVars, imagePaths, results, retries, attempts, requests, delays,
                 fails, plainRetryable, lastError, lastContent, callResult,
                 notLoaderVars>>

\* the timer of this.sleep(delay) fires; continue
SleepDone ==
  /\ pc = "sleeping"
  /\ pc' = "attempting"
  /\ UNCHANGED <<configVars, batchVars, retries, attempts, requests, delays, fails,
                 plainRetryable, lastError, lastContent, callResult, notLoaderVars>>

\* variant of PushData that records nothing and calls analyzeImage again for
\* the same item
PushDataRepeatsItem ==
  /\ pc = "returned"
  /\ pc' = "loop"
  /\ UNCHANGED <<configVars, batchVars, retries, attempts, requests, delays, fails,
                 plainRetryable, lastError, lastContent, callResult, notLoaderVars>>

\* results.push({ path: imagePath, data: result })
PushData ==
  /\ pc = "returned"
  /\ results' = Append(results, [path |-> imagePaths[idx], data |-> callResult])
  /\ idx' = idx + 1
  /\ pc' = "loop"
  /\ UNCHANGED <<configVars, imagePaths, retries, attempts, requests, delays, fails,
                 plainRetryable, lastError, lastContent, callResult, notLoaderVars>>

\* error.message || "Unknown error occurred"
ErrorText(e) == IF e.message # "" THEN e.message ELSE "Unknown error occurred"

\* variant of PushError in which a failed item ends the batch
PushErrorAbort ==
  /\ pc = "threw"
  /\ pc' = "batchReturned"
  /\ UNCHANGED <<configVars, batchVars, retries, attempts, requests, delays, fails,
                 plainRetryable, lastError, lastContent, callResult, notLoaderVars>>

\* results.push({ path: imagePath, error: ... })
PushError ==
  /\ pc = "threw"
  /\ results' = Append(results, [path |-> imagePaths[idx], error |-> ErrorText(callResult)])
  /\ idx' = idx + 1
  /\ pc' = "loop"
  /\ UNCHANGED <<configVars, imagePaths, retries, attempts, requests, delays, fails,
                 plainRetryable, lastError, lastContent, callResult, notLoaderVars>>

\* return results
BatchReturn ==
  /\ pc = "loop" /\ idx > Len(imagePaths)
  /\ pc' = "batchReturned"
  /\ UNCHANGED <<configVars, batchVars, retries, attempts, requests, delays, fails,
                 plainRetryable, lastError, lastContent, callResult, notLoaderVars>>

Next ==
  \/ CallAnalyzeImage
  \/ IssueRequest
  \/ ReadFails
  \/ RequestSucceeds
  \/ RequestFails
  \/ SleepDone
  \/ PushData
  \/ PushError
  \/ BatchReturn

Spec == Init /\ [][Next]_vars


\* ------------------------------------------- one call, any response content
\* every content of at most MaxContentLen tokens, and the sample contents
AllContents == SeqsUpTo(Tokens, MaxContentLen) \cup SampleContents

\* new GPTVisionLoader(apiKey, 1), one image handed to the batch helper
InitAnyContent ==
  /\ variant \in Variants
  /\ maxRetries = 1
  /\ initialRetryDelay = DefaultInitialRetryDelay
  /\ imagePaths = <<"a.jpg">>
  /\ results = <<>>
  /\ idx = 1
  /\ pc = "loop"
  /\ retries = 0 /\ attempts = 0 /\ requests = 0 /\ delays = <<>>
  /\ fails = 0 /\ plainRetryable = 0
  /\ lastError = NoError /\ lastContent = NullContent /\ callResult = NullValue
  /\ LayoutIdle /\ FolderIdle /\ MainIdle /\ ConcIdle /\ HandlerIdle

\* the request resolves with any content the remote may produce
RequestSucceedsAnyContent ==
  /\ pc = "inflight"
  /\ \E c \in AllContents : Succeed(c)

NextAnyContent ==
  \/ CallAnalyzeImage
  \/ IssueRequest
  \/ ReadFails
  \/ RequestSucceedsAnyContent
  \/ RequestFails
  \/ SleepDone
  \/ PushData
  \/ PushError
  \/ BatchReturn

SpecAnyContent == InitAnyContent /\ [][NextAnyContent]_vars

\* --------------------------------------------------------- ImageProcessor
Widths(imgs) == [i \in 1..Len(imgs) |-> imgs[i].width]
Heights(imgs) == [i \in 1..Len(imgs) |-> imgs[i].height]

\* variant of MaxSeq that takes the first element for the largest
MaxSeqFirst(xs) == xs[1]

\* Math.max(...xs)
MaxSeq(xs) == MaxOf({xs[i] : i \in 1..Len(xs)})

\* variant of ReduceWithMargin that adds the margin for the first element too
RECURSIVE ReduceWithMarginEvery(_, _)
ReduceWithMarginEvery(xs, m) ==
  IF xs = <<>> THEN 0
  ELSE ReduceWithMarginEvery(SubSeq(xs, 1, Len(xs) - 1), m) + xs[Len(xs)] + m

\* xs.reduce((sum, x, i) => sum + x + (i > 0 ? margin : 0), 0)
RECURSIVE ReduceWithMargin(_, _)
ReduceWithMargin(xs, m) ==
  IF xs = <<>> THEN 0
  ELSE ReduceWithMargin(SubSeq(xs, 1, Len(xs) - 1), m) + xs[Len(xs)]
         + (IF Len(xs) > 1 THEN m ELSE 0)

\* variant of OffsetBefore without the margin added for all but the first image
OffsetBeforeNoMargin(xs, i, m) == ReduceWithMargin(SubSeq(xs, 1, i - 1), m)

\* the position of image i (1-based): slice(0, i).reduce(...) and, for all but
\* the first image, one more margin
OffsetBefore(xs, i, m) ==
  ReduceWithMargin(SubSeq(xs, 1, i - 1), m) + (IF i > 1 THEN m ELSE 0)

\* Math.floor((total - size) / 2)
Centered(total, size) == (total - size) \div 2

\* Math.ceil(images.length / maxImagesPerRow)
RowCount(n, k) == (n + k - 1) \div k

\* variant of RowSlice that takes the end index as inclusive
RowSliceInclusiveEnd(imgs, rowIndex, k) ==
  LET startIdx == rowIndex * k
      endIdx == Min2(startIdx + k + 1, Len(imgs))
  IN  SubSeq(imgs, startIdx + 1, endIdx)

\* images.slice(startIdx, endIdx) of row rowIndex (0-based)
RowSlice(imgs, rowIndex, k) ==
  LET startIdx == rowIndex * k
      endIdx == Min2(startIdx + k, Len(imgs))
  IN  SubSeq(imgs, startIdx + 1, endIdx)

\* Array.from({ length: rows }, ...)
ImagesByRow(imgs, k) == [r \in 1..RowCount(Len(imgs), k) |-> RowSlice(imgs, r - 1, k)]

\* rowDimensions of imagesByRow
RowDimensions(rows, m) ==
  [r \in 1..Len(rows) |->
     [width |-> ReduceWithMargin(Widths(rows[r]), m), height |-> MaxSeq(Heights(rows[r]))]]

\* the inner for loop over one row, from column colIndex (1-based) on
RECURSIVE PlaceRow(_, _, _, _, _, _)
PlaceRow(rowImages, colIndex, currentX, currentY, rowHeight, m) ==
  IF colIndex > Len(rowImages) THEN <<>>
  ELSE LET img == rowImages[colIndex]
           x == IF colIndex > 1 THEN currentX + m ELSE currentX
           y == currentY + Centered(rowHeight, img.height)
       IN  <<[left |-> x, top |-> y]>>
             \o PlaceRow(rowImages, colIndex + 1, x + img.width, currentY, rowHeight, m)

\* variant of PlaceRows that advances currentY by the margin only
RECURSIVE PlaceRowsMarginOnly(_, _, _, _, _)
PlaceRowsMarginOnly(rows, dims, rowIndex, currentY, m) ==
  IF rowIndex > Len(rows) THEN <<>>
  ELSE LET rowHeight == dims[rowIndex].height
           nextY == currentY + (IF rowIndex < Len(rows) THEN m ELSE 0)
       IN  PlaceRow(rows[rowIndex], 1, 0, currentY, rowHeight, m)
             \o PlaceRowsMarginOnly(rows, dims, rowIndex + 1, nextY, m)

\* the outer for loop over the rows, from row rowIndex (1-based) on
RECURSIVE PlaceRows(_, _, _, _, _)
PlaceRows(rows, dims, rowIndex, currentY, m) ==
  IF rowIndex > Len(rows) THEN <<>>
  ELSE LET rowHeight == dims[rowIndex].height
           nextY == currentY + rowHeight + (IF rowIndex < Len(rows) THEN m ELSE 0)
       IN  PlaceRow(rows[rowIndex], 1, 0, currentY, rowHeight, m)
             \o PlaceRows(rows, dims, rowIndex + 1, nextY, m)

Dims == 1..MaxDim

\* the images as loaded: path (here the position in the directory listing),
\* metadata.width, metadata.height
ImageLists ==
  {[i \in 1..Len(wh) |-> [path |-> i, width |-> wh[i][1], height |-> wh[i][2]]] :
     wh \in {s \in SeqsUpTo(Dims \X Dims, MaxImages) : Len(s) >= 1}}

LoaderIdle ==
  /\ variant = "services" /\ maxRetries = DefaultMaxRetries
  /\ initialRetryDelay = DefaultInitialRetryDelay
  /\ imagePaths = <<>> /\ results = <<>> /\ idx = 1 /\ pc = "idle"
  /\ retries = 0 /\ attempts = 0 /\ requests = 0 /\ delays = <<>>
  /\ fails = 0 /\ plainRetryable = 0
  /\ lastError = NoError /\ lastContent = NullContent /\ callResult = NullValue

\* mergeImagesInFolder has loaded a non-empty list of images and is about to
\* pick the merge routine
InitLayout ==
  /\ images \in ImageLists
  /\ direction \in {"horizontal", "vertical"}
  /\ margin \in 0..MaxMargin
  /\ maxImagesPerRow \in 0..MaxPerRow
  /\ layout = "none"
  /\ canvas = [width |-> 0, height |-> 0] /\ composite = <<>>
  /\ imagesByRow = <<>> /\ rowDimensions = <<>>
  /\ LoaderIdle /\ FolderIdle /\ MainIdle /\ ConcIdle /\ HandlerIdle

\* direction is not 'horizontal': mergeImagesVertically
MergeImagesVertically ==
  /\ layout = "none" /\ direction # "horizontal"
  /\ layout' = "vertical"
  /\ canvas' = [width |-> MaxSeq(Widths(images)),
                height |-> ReduceWithMargin(Heights(images), margin)]
  /\ composite' = [i \in 1..Len(images) |->
                     [left |-> Centered(MaxSeq(Widths(images)), images[i].width),
                      top |-> OffsetBefore(Heights(images), i, margin)]]
  /\ UNCHANGED <<images, direction, margin, maxImagesPerRow, imagesByRow, rowDimensions,
                 notLayoutVars>>

\* direction is 'horizontal' and maxImagesPerRow is absent or 0
MergeImagesHorizontally ==
  /\ layout = "none" /\ direction = "horizontal" /\ ~(maxImagesPerRow > 0)
  /\ layout' = "horizontal"
  /\ canvas' = [width |-> ReduceWithMargin(Widths(images), margin),
                height |-> MaxSeq(Heights(images))]
  /\ composite' = [i \in 1..Len(images) |->
                     [left |-> OffsetBefore(Widths(images), i, margin),
                      top |-> Centered(MaxSeq(Heights(images)), images[i].height)]]
  /\ UNCHANGED <<images, direction, margin, maxImagesPerRow, imagesByRow, rowDimensions,
                 notLayoutVars>>

\* direction is 'horizontal' and maxImagesPerRow > 0: mergeImagesInGrid
MergeImagesInGrid ==
  /\ layout = "none" /\ direction = "horizontal" /\ maxImagesPerRow > 0
  /\ LET k == IF maxImagesPerRow # 0 THEN maxImagesPerRow ELSE DefaultGridPerRow
         rows == ImagesByRow(images, k)
         dims == RowDimensions(rows, margin)
     IN  /\ imagesByRow' = rows
         /\ rowDimensions' = dims
         /\ canvas' = [width |-> MaxSeq([r \in 1..Len(dims) |-> dims[r].width]),
                       height |-> ReduceWithMargin([r \in 1..Len(dims) |-> dims[r].height],
                                                   margin)]
         /\ composite' = PlaceRows(rows, dims, 1, 0, margin)
  /\ layout' = "grid"
  /\ UNCHANGED <<images, direction, margin, maxImagesPerRow, notLayoutVars>>

NextLayout ==
  \/ MergeImagesVertically
  \/ MergeImagesHorizontally
  \/ MergeImagesInGrid

SpecLayout == InitLayout /\ [][NextLayout]_vars

\* ------------------------------------------ ImageProcessor.mergeImagesInFolder
FileExtensions == {".jpeg", ".PNG", ".gif"}
FileSizes == {<<1, 1>>, <<2, 3>>}

\* a directory entry: its extension, whether sharp can decode it, and the
\* metadata sharp reports when it can
FileKinds ==
  {[ext |-> e, decodable |-> TRUE, width |-> wh[1], height |-> wh[2]] :
     e \in FileExtensions, wh \in FileSizes}
  \cup {[ext |-> e, decodable |-> FALSE, width |-> 0, height |-> 0] : e \in FileExtensions}

\* path.extname(file).toLowerCase()
ToLowerCase(ext) == IF ext = ".PNG" THEN ".png" ELSE ext

\* ext === '.jpg' || ext === '.jpeg' || ext === '.png'
IsImageFile(f) == ToLowerCase(f.ext) \in {".jpg", ".jpeg", ".png"}

\* readdirSync(folderPath).filter(...)
ImageFilesOf(fls) == SelectSeq(fls, IsImageFile)

\* variant of LoadOutcome that goes on when an image cannot be decoded
LoadOutcomeIgnoringDecode(exists, fls) ==
  IF ~exists THEN "nodir"
  ELSE IF Len(ImageFilesOf(fls)) = 0 THEN "noimages"
  ELSE "loaded"

\* how far mergeImagesInFolder gets before it has images to merge
LoadOutcome(exists, fls) ==
  IF ~exists THEN "nodir"
  ELSE IF Len(ImageFilesOf(fls)) = 0 THEN "noimages"
  ELSE IF \E i \in 1..Len(ImageFilesOf(fls)) : ~ImageFilesOf(fls)[i].decodable
       THEN "decodeError"
  ELSE "loaded"

\* the failure result: { success: false, error }
Failure(msg) == [success |-> FALSE, error |-> msg]

\* the success result: { success: true, outputPath }; the path is told by its extension
Success(ext) == [success |-> TRUE, outputPath |-> ext]

\* every merge routine ends its pipeline with .jpeg({ quality })
PipelineFormat == "jpeg"

\* outputImage.toFile(outputPath): sharp encodes in the format selected on the
\* pipeline; the extension of the path counts only when none was selected
EncodingWritten(selected, ext) == IF selected # "" THEN selected ELSE ext

\* a call of mergeImagesInFolder with its folder and options
InitFolder ==
  /\ folderExists \in BOOLEAN
  /\ files \in SeqsUpTo(FileKinds, MaxImages)
  /\ outputFormat \in {"jpeg", "png"}
  /\ direction \in {"horizontal", "vertical"}
  /\ margin \in 0..MaxMargin
  /\ maxImagesPerRow \in 0..MaxPerRow
  /\ mergeResult = NoResult /\ written = NoFile
  /\ images = <<>> /\ layout = "unloaded"
  /\ canvas = [width |-> 0, height |-> 0] /\ composite = <<>>
  /\ imagesByRow = <<>> /\ rowDimensions = <<>>
  /\ LoaderIdle /\ MainIdle /\ ConcIdle /\ HandlerIdle

\* existsSync, readdirSync + filter, Promise.all over sharp(file).metadata()
FolderLoad ==
  /\ layout = "unloaded" /\ "pending" \in DOMAIN mergeResult
  /\ LET outcome == LoadOutcome(folderExists, files)
         found == ImageFilesOf(files)
     IN  CASE outcome = "nodir" ->
                /\ mergeResult' = Failure("Directory not found")
                /\ UNCHANGED <<images, layout>>
           [] outcome = "noimages" ->
                /\ mergeResult' = Failure("No image files found in directory")
                /\ UNCHANGED <<images, layout>>
           [] outcome = "decodeError" ->
                /\ mergeResult' = Failure("Input file contains unsupported image format")
                /\ UNCHANGED <<images, layout>>
           [] OTHER ->
                /\ images' = [i \in 1..Len(found) |->
                                [path |-> i, width |-> found[i].width,
                                 height |-> found[i].height]]
                /\ layout' = "none"
                /\ UNCHANGED mergeResult
  /\ UNCHANGED <<direction, margin, maxImagesPerRow, canvas, composite, imagesByRow,
                 rowDimensions, folderExists, files, outputFormat, written,
                 loaderVars, mainVars, concVars, handlerVars>>

\* mkdirSync if needed, await outputImage.toFile(outputPath), return success
FolderWriteFile ==
  /\ layout \in {"vertical", "horizontal", "grid"} /\ "pending" \in DOMAIN mergeResult
  /\ written' = [ext |-> outputFormat,
                 encoding |-> EncodingWritten(PipelineFormat, outputFormat)]
  /\ mergeResult' = Success(outputFormat)
  /\ UNCHANGED <<layoutVars, folderExists, files, outputFormat, loaderVars, mainVars,
                 concVars, handlerVars>>

\* mkdirSync or toFile throws: the outer catch returns the failure result
FolderWriteFails ==
  /\ layout \in {"vertical", "horizontal", "grid"} /\ "pending" \in DOMAIN mergeResult
  /\ mergeResult' = Failure("unable to open for write")
  /\ UNCHANGED <<layoutVars, folderExists, files, outputFormat, written, loaderVars,
                 mainVars, concVars, handlerVars>>

NextFolder ==
  \/ FolderLoad
  \/ MergeImagesVertically
  \/ MergeImagesHorizontally
  \/ MergeImagesInGrid
  \/ FolderWriteFile
  \/ FolderWriteFails

SpecFolder == InitFolder /\ [][NextFolder]_vars

\* ------------------------------------------------- processImages (main.ts)
\* the user folders are named by their position in the directory listing
FolderLists == {[i \in 1..n |-> i] : n \in 0..MaxFolders}

SkippedText == "Skipped due to API quota limit"
NotFoundText == "Merged image not found"
QuotaEntryText == "OpenAI API quota exceeded"

AnalysisEntry(f, a) == [image |-> f, analysis |-> a]
ErrorEntry(f, msg) == [image |-> f, error |-> msg]

\* try { parsedResult = JSON.parse(content) } catch { parsedResult = { rawText: content } }
MainAnalysis(v) ==
  IF v.kind = "null" THEN NullValue
  ELSE IF v.kind = "raw" /\ JsonParse(v.text).ok THEN JsonValue(JsonParse(v.text).value)
  ELSE [kind |-> "rawText", text |-> v.text]

\* variant of MainIsQuota that looks at the error type only
MainIsQuotaTypeOnly(e) == e.type = "insufficient_quota"

\* err.name === 'QuotaExceededError' || err.error?.type === 'insufficient_quota'
\*   || (err.message && err.message.includes('quota'))
MainIsQuota(e) ==
  \/ e.name = "QuotaExceededError"
  \/ e.type = "insufficient_quota"
  \/ (e.message # "" /\ IncludesQuota(e.message))

\* allResults[userFolder] = userResults
WithKey(all, f, userResults) ==
  [k \in (DOMAIN all) \cup {f} |-> IF k = f THEN userResults ELSE all[k]]

\* new GPTVisionLoader(OPENAI_API_KEY): the root loader with its defaults
InitMain ==
  /\ mstage = "start"
  /\ imagesDirExists \in BOOLEAN
  /\ userFolders \in FolderLists
  /\ mergedExists \in [1..Len(userFolders) -> BOOLEAN]
  /\ mi = 1 /\ quotaExceeded = FALSE
  /\ allResults = <<>> /\ resultsFile = [written |-> FALSE, content |-> <<>>]
  /\ variant = "root" /\ maxRetries = DefaultMaxRetries
  /\ initialRetryDelay = DefaultInitialRetryDelay
  /\ imagePaths = <<>> /\ results = <<>> /\ idx = 1 /\ pc = "idle"
  /\ retries = 0 /\ attempts = 0 /\ requests = 0 /\ delays = <<>>
  /\ fails = 0 /\ plainRetryable = 0
  /\ lastError = NoError /\ lastContent = NullContent /\ callResult = NullValue
  /\ LayoutIdle /\ FolderIdle /\ ConcIdle /\ HandlerIdle

mainFrame == <<imagesDirExists, userFolders>>

\* existsSync(imagesDir), readdirSync, the two early returns, then the
\* declarations of allResults and quotaExceeded
MainStart ==
  /\ mstage = "start"
  /\ mstage' = IF imagesDirExists /\ Len(userFolders) > 0 THEN "merge" ELSE "done"
  /\ mi' = 1 /\ quotaExceeded' = FALSE /\ allResults' = <<>>
  /\ UNCHANGED <<mainFrame, mergedExists, resultsFile, loaderVars, layoutVars, folderVars,
                 concVars, handlerVars>>

\* one iteration of the first loop: mergeImagesInFolder(userDir, ...-horizontal);
\* when it succeeds the merged image is on disk, its result is only logged
MainMergeFolder ==
  /\ mstage = "merge"
  /\ \E ok \in BOOLEAN :
       mergedExists' = [mergedExists EXCEPT ![mi] = ok \/ @]
  /\ IF mi < Len(userFolders)
     THEN mi' = mi + 1 /\ UNCHANGED mstage
     ELSE mi' = 1 /\ mstage' = "analyze"
  /\ UNCHANGED <<mainFrame, quotaExceeded, allResults, resultsFile, loaderVars,
                 layoutVars, folderVars, concVars, handlerVars>>

\* second loop, quotaExceeded already set: the folder is skipped
MainSkipFolder ==
  /\ mstage = "analyze" /\ mi <= Len(userFolders) /\ quotaExceeded
  /\ allResults' = WithKey(allResults, userFolders[mi],
                           <<ErrorEntry(userFolders[mi], SkippedText)>>)
  /\ mi' = mi + 1
  /\ UNCHANGED <<mstage, mainFrame, mergedExists, quotaExceeded, resultsFile, loaderVars,
                 layoutVars, folderVars, concVars, handlerVars>>

\* second loop, merged image missing: the entry is pushed to userResults and
\* the continue statement leaves the iteration before allResults is assigned
MainImageMissing ==
  /\ mstage = "analyze" /\ mi <= Len(userFolders) /\ ~quotaExceeded
  /\ ~mergedExists[mi]
  /\ mi' = mi + 1
  /\ UNCHANGED <<mstage, mainFrame, mergedExists, quotaExceeded, allResults, resultsFile,
                 loaderVars, layoutVars, folderVars, concVars, handlerVars>>

\* second loop: await visionLoader.analyzeImage(horizontalImagePath)
MainCallAnalyzeImage ==
  /\ mstage = "analyze" /\ mi <= Len(userFolders) /\ ~quotaExceeded
  /\ mergedExists[mi]
  /\ mstage' = "awaiting"
  /\ pc' = "attempting"
  /\ retries' = 0 /\ attempts' = 0 /\ requests' = 0 /\ delays' = <<>>
  /\ fails' = 0 /\ plainRetryable' = 0
  /\ lastError' = NoError /\ lastContent' = NullContent /\ callResult' = NullValue
  /\ UNCHANGED <<configVars, batchVars, mainFrame, mergedExists, mi, quotaExceeded,
                 allResults, resultsFile, layoutVars, folderVars, concVars, handlerVars>>

\* the call returned: the analysis entry is recorded
MainAnalysisReturned ==
  /\ mstage = "awaiting" /\ pc = "returned"
  /\ allResults' = WithKey(allResults, userFolders[mi],
                           <<AnalysisEntry(userFolders[mi], MainAnalysis(callResult))>>)
  /\ mi' = mi + 1 /\ mstage' = "analyze" /\ pc' = "idle"
  /\ UNCHANGED <<configVars, batchVars, retries, attempts, requests, delays, fails,
                 plainRetryable, lastError, lastContent, callResult, mainFrame,
                 mergedExists, quotaExceeded, resultsFile, layoutVars, folderVars,
                 concVars, handlerVars>>

\* the call threw: catch (err) of the second loop
MainAnalysisThrew ==
  /\ mstage = "awaiting" /\ pc = "threw"
  /\ IF MainIsQuota(callResult)
     THEN /\ quotaExceeded' = TRUE
          /\ allResults' = WithKey(allResults, userFolders[mi],
                                   <<ErrorEntry(userFolders[mi], QuotaEntryText)>>)
     ELSE /\ UNCHANGED quotaExceeded
          /\ allResults' = WithKey(allResults, userFolders[mi],
                                   <<ErrorEntry(userFolders[mi], callResult.message)>>)
  /\ mi' = mi + 1 /\ mstage' = "analyze" /\ pc' = "idle"
  /\ UNCHANGED <<configVars, batchVars, retries, attempts, requests, delays, fails,
                 plainRetryable, lastError, lastContent, callResult, mainFrame,
                 mergedExists, resultsFile, layoutVars, folderVars,
                 concVars, handlerVars>>

\* after the second loop: fs.writeFileSync(outputFile, JSON.stringify(allResults))
MainWriteResults ==
  /\ mstage = "analyze" /\ mi > Len(userFolders)
  /\ resultsFile' = [written |-> TRUE, content |-> allResults]
  /\ mstage' = "done"
  /\ UNCHANGED <<mainFrame, mergedExists, mi, quotaExceeded, allResults, loaderVars,
                 layoutVars, folderVars, concVars, handlerVars>>

NextMain ==
  \/ MainStart
  \/ MainMergeFolder
  \/ MainSkipFolder
  \/ MainImageMissing
  \/ MainCallAnalyzeImage
  \/ IssueRequest
  \/ ReadFails
  \/ RequestSucceeds
  \/ RequestFails
  \/ SleepDone
  \/ MainAnalysisReturned
  \/ MainAnalysisThrew
  \/ MainWriteResults

SpecMain == InitMain /\ [][NextMain]_vars

\* ---------------------- interleaved analyzeImage calls on one loader (Promise.all)
\* an invocation that has not begun; its locals do not exist yet
NotStartedCall ==
  [pc |-> "notStarted", retries |-> 0, requests |-> 0, delays |-> <<>>,
   lastTransient |-> FALSE]

\* const visionLoader = new GPTVisionLoader(...); imageFiles.map(async (file) => ...)
InitConcurrent ==
  /\ calls \in {[c \in 1..n |-> NotStartedCall] : n \in 1..MaxCalls}
  /\ variant = "root"
  /\ maxRetries \in 0..MaxRetriesCap
  /\ initialRetryDelay \in InitialDelays
  /\ imagePaths = <<>> /\ results = <<>> /\ idx = 1 /\ pc = "idle"
  /\ retries = 0 /\ attempts = 0 /\ requests = 0 /\ delays = <<>>
  /\ fails = 0 /\ plainRetryable = 0
  /\ lastError = NoError /\ lastContent = NullContent /\ callResult = NullValue
  /\ LayoutIdle /\ FolderIdle /\ MainIdle /\ HandlerIdle

\* variant of RetriesSeenBy in which the counter is a field of the loader,
\* shared by all its invocations
RetriesSeenShared(c, cs) == MaxOf({cs[d].retries : d \in DOMAIN cs})

\* the retries variable a call reads and increments: let retries = 0 is
\* declared inside analyzeImage, one per invocation
RetriesSeenBy(c, cs) == cs[c].retries

concFrame == <<loaderVars, layoutVars, folderVars, mainVars, handlerVars>>

\* analyzeImage(imagePath) is entered: let retries = 0
ConcStart(c) ==
  /\ calls[c].pc = "notStarted"
  /\ calls' = [calls EXCEPT ![c] = [NotStartedCall EXCEPT !.pc = "attempting"]]
  /\ UNCHANGED concFrame

\* the catch (error) block as run by call c
ConcCatch(c, e) ==
  LET r == RetriesSeenBy(c, calls)
      branch == CatchOutcome(e, r, maxRetries)
      transient == RetryableStatus(e.status) /\ ~IsQuotaSignal(e)
  IN  calls' = [calls EXCEPT ![c] =
        IF branch = "retry"
        THEN [@ EXCEPT !.pc = "sleeping", !.retries = r + 1,
                       !.delays = Append(@, BackoffDelay(initialRetryDelay, r + 1)),
                       !.lastTransient = transient]
        ELSE [@ EXCEPT !.pc = "threw", !.lastTransient = transient]]

\* call c issues its request
ConcIssueRequest(c) ==
  /\ calls[c].pc = "attempting"
  /\ calls' = [calls EXCEPT ![c].pc = "inflight", ![c].requests = @ + 1]
  /\ UNCHANGED concFrame

\* call c cannot read its file
ConcReadFails(c) ==
  /\ calls[c].pc = "attempting"
  /\ ConcCatch(c, ReadError(0))
  /\ UNCHANGED concFrame

\* the request of call c resolves
ConcRequestSucceeds(c) ==
  /\ calls[c].pc = "inflight"
  /\ calls' = [calls EXCEPT ![c].pc = "returned"]
  /\ UNCHANGED concFrame

\* the request of call c rejects
ConcRequestFails(c) ==
  /\ calls[c].pc = "inflight"
  /\ \E st \in ErrorStatuses, ty \in ErrorTypes, msg \in ErrorMessages :
       ConcCatch(c, RemoteError(st, ty, msg, 0))
  /\ UNCHANGED concFrame

\* the backoff timer of call c fires
ConcSleepDone(c) ==
  /\ calls[c].pc = "sleeping"
  /\ calls' = [calls EXCEPT ![c].pc = "attempting"]
  /\ UNCHANGED concFrame

NextConcurrent ==
  \/ \E c \in DOMAIN calls : ConcStart(c)
  \/ \E c \in DOMAIN calls : ConcIssueRequest(c)
  \/ \E c \in DOMAIN calls : ConcReadFails(c)
  \/ \E c \in DOMAIN calls : ConcRequestSucceeds(c)
  \/ \E c \in DOMAIN calls : ConcRequestFails(c)
  \/ \E c \in DOMAIN calls : ConcSleepDone(c)

SpecConcurrent == InitConcurrent /\ [][NextConcurrent]_vars


\* ------------------------------------------------ the batch under fair scheduling
\* a batch over a list of copies of one path, with the default delay
InitFair ==
  /\ variant \in Variants
  /\ maxRetries \in 0..MaxRetriesCap
  /\ initialRetryDelay = DefaultInitialRetryDelay
  /\ imagePaths \in SeqsUpTo({"a.jpg"}, MaxBatch)
  /\ results = <<>>
  /\ idx = 1
  /\ pc = "loop"
  /\ retries = 0 /\ attempts = 0 /\ requests = 0 /\ delays = <<>>
  /\ fails = 0 /\ plainRetryable = 0
  /\ lastError = NoError /\ lastContent = NullContent /\ callResult = NullValue
  /\ LayoutIdle /\ FolderIdle /\ MainIdle /\ ConcIdle /\ HandlerIdle

\* the JavaScript event loop runs every continuation that is ready: the loop
\* body after an await, the catch block after a rejection, the code after the
\* timer; the promise of a request settles and the timer of sleep fires
Fairness ==
  /\ WF_vars(CallAnalyzeImage)
  /\ WF_vars(IssueRequest \/ ReadFails)
  /\ WF_vars(RequestSucceeds \/ RequestFails)
  /\ WF_vars(SleepDone)
  /\ WF_vars(PushData \/ PushError)
  /\ WF_vars(BatchReturn)

SpecFair == InitFair /\ [][Next]_vars /\ Fairness


\* ------------------------------- POST handler: merge, then analyze (images.ts)
HandlerMargin == 10
HandlerPerRow == 2

\* req.query.userId: absent, an array (repeated parameter), or a string
UserIds ==
  {[kind |-> "absent"], [kind |-> "array"]}
  \cup {[kind |-> "string", text |-> t] : t \in {<<>>, <<"W">>, <<"k">>, <<"W", "k">>}}

\* !userId || userId.trim() === ''
UserIdRejected(u) ==
  \/ u.kind = "absent"
  \/ u.kind = "string" /\ (u.text = <<>> \/ Trim(u.text) = <<>>)

\* directory entries the handler can meet: images sharp decodes, an image it
\* cannot decode, a .gif and a file that is no image at all
HandlerFileKinds ==
  {[ext |-> ".jpeg", decodable |-> TRUE, width |-> 1, height |-> 1],
   [ext |-> ".jpeg", decodable |-> TRUE, width |-> 2, height |-> 3],
   [ext |-> ".PNG", decodable |-> FALSE, width |-> 0, height |-> 0],
   [ext |-> ".gif", decodable |-> TRUE, width |-> 1, height |-> 1],
   [ext |-> ".txt", decodable |-> FALSE, width |-> 0, height |-> 0]}

\* !fileStat.isDirectory() && imageExtensions.includes(ext)
HandlerIsImageFile(f) ==
  ToLowerCase(f.ext) \in {".jpg", ".jpeg", ".png", ".gif", ".webp", ".svg"}

\* res.status(status).json({ success, message })
Respond(status, success, message) ==
  [sent |-> TRUE, status |-> status, success |-> success, message |-> message]

\* the response of the outer catch block
CaughtResponse == Respond(500, FALSE, "Error processing images")

\* { image: path.basename(mergedImagePath), analysis }
ProcessedResult(merged, analysis) == [image |-> merged.outputPath, analysis |-> analysis]

\* variant of MergeFailed that never sees a failure
MergeFailedNever(r) == FALSE

\* !horizontalMergeResult.success
MergeFailed(r) == ~r.success

\* a POST request arrives; the loader the handler will construct is the
\* services loader with its defaults
InitHandler ==
  /\ hstage = "start"
  /\ userId \in UserIds
  /\ openaiApiKey \in BOOLEAN
  /\ response = NoResponse
  /\ userResultsFile \in {NoUserResults, [state |-> "stale"]}
  /\ folderExists \in BOOLEAN
  /\ files \in SeqsUpTo(HandlerFileKinds, MaxImages)
  /\ outputFormat = "jpeg" /\ mergeResult = NoResult /\ written = NoFile
  /\ images = <<>> /\ direction = "vertical" /\ margin = 0 /\ maxImagesPerRow = 0
  /\ layout = "notCalled"
  /\ canvas = [width |-> 0, height |-> 0] /\ composite = <<>>
  /\ imagesByRow = <<>> /\ rowDimensions = <<>>
  /\ LoaderIdle /\ MainIdle /\ ConcIdle

handlerInputs == <<userId, openaiApiKey>>

\* the user id test and fs.existsSync(userDir); trim() of an array throws
HandlerCheckRequest ==
  /\ hstage = "start"
  /\ IF userId.kind = "array"
     THEN response' = CaughtResponse /\ hstage' = "done"
     ELSE IF UserIdRejected(userId)
     THEN response' = Respond(400, FALSE, "User ID is required") /\ hstage' = "done"
     ELSE IF ~folderExists
     THEN response' = Respond(404, FALSE, "No images found for this user")
          /\ hstage' = "done"
     ELSE hstage' = "listing" /\ UNCHANGED response
  /\ UNCHANGED <<handlerInputs, userResultsFile, loaderVars, layoutVars, folderVars,
                 mainVars, concVars>>

\* readdir resolved and the filter ran: no image file, no API key, or the
\* services are built and mergeImagesInFolder is called with the fixed options
HandlerListFiles ==
  /\ hstage = "listing"
  /\ IF Len(SelectSeq(files, HandlerIsImageFile)) = 0
     THEN /\ response' = Respond(404, FALSE, "No image files found for this user")
          /\ hstage' = "done"
          /\ UNCHANGED <<layoutVars, outputFormat>>
     ELSE IF ~openaiApiKey
     THEN /\ response' = Respond(500, FALSE, "OpenAI API key not configured")
          /\ hstage' = "done"
          /\ UNCHANGED <<layoutVars, outputFormat>>
     ELSE /\ hstage' = "merging"
          /\ direction' = "horizontal" /\ maxImagesPerRow' = HandlerPerRow
          /\ margin' = HandlerMargin /\ outputFormat' = "jpeg"
          /\ layout' = "unloaded"
          /\ UNCHANGED <<response, images, canvas, composite, imagesByRow,
                         rowDimensions>>
  /\ UNCHANGED <<handlerInputs, userResultsFile, loaderVars, folderExists, files,
                 mergeResult, written, mainVars, concVars>>

\* readdir rejects or statSync throws: the outer catch answers
HandlerListingFails ==
  /\ hstage = "listing"
  /\ response' = CaughtResponse /\ hstage' = "done"
  /\ UNCHANGED <<handlerInputs, userResultsFile, loaderVars, layoutVars, folderVars,
                 mainVars, concVars>>

\* mergeImagesInFolder returned: a failure is answered with 500, otherwise
\* visionLoader.analyzeImage(mergedImagePath) is called
HandlerMergeReturned ==
  /\ hstage = "merging" /\ "success" \in DOMAIN mergeResult
  /\ IF MergeFailed(mergeResult)
     THEN /\ response' = [Respond(500, FALSE, "Failed to merge images")
                            EXCEPT !.message = <<@, mergeResult.error>>]
          /\ hstage' = "done"
          /\ UNCHANGED loaderVars
     ELSE /\ hstage' = "analyzing"
          /\ pc' = "attempting"
          /\ retries' = 0 /\ attempts' = 0 /\ requests' = 0 /\ delays' = <<>>
          /\ fails' = 0 /\ plainRetryable' = 0
          /\ lastError' = NoError /\ lastContent' = NullContent
          /\ callResult' = NullValue
          /\ UNCHANGED <<response, configVars, batchVars>>
  /\ UNCHANGED <<handlerInputs, userResultsFile, layoutVars, folderVars, mainVars,
                 concVars>>

\* the analysis returned: the results file is written, then 200 is sent
HandlerSaveResults ==
  /\ hstage = "analyzing" /\ pc = "returned"
  /\ userResultsFile' = [state |-> "written",
                         content |-> ProcessedResult(mergeResult, callResult)]
  /\ response' = [sent |-> TRUE, status |-> 200, success |-> TRUE,
                  message |-> "Images merged and processed successfully",
                  data |-> ProcessedResult(mergeResult, callResult)]
  /\ hstage' = "done"
  /\ UNCHANGED <<handlerInputs, loaderVars, layoutVars, folderVars, mainVars, concVars>>

\* the analysis returned but mkdirSync or writeFileSync throws: the file is as
\* it was or, when the write began, cut short; the outer catch answers
HandlerSaveFails ==
  /\ hstage = "analyzing" /\ pc = "returned"
  /\ userResultsFile' \in {userResultsFile, [state |-> "truncated"]}
  /\ response' = CaughtResponse /\ hstage' = "done"
  /\ UNCHANGED <<handlerInputs, loaderVars, layoutVars, folderVars, mainVars, concVars>>

\* the analysis raised: the outer catch answers
HandlerAnalysisThrew ==
  /\ hstage = "analyzing" /\ pc = "threw"
  /\ response' = CaughtResponse /\ hstage' = "done"
  /\ UNCHANGED <<handlerInputs, userResultsFile, loaderVars, layoutVars, folderVars,
                 mainVars, concVars>>

NextHandler ==
  \/ HandlerCheckRequest
  \/ HandlerListFiles
  \/ HandlerListingFails
  \/ FolderLoad
  \/ MergeImagesInGrid
  \/ FolderWriteFile
  \/ FolderWriteFails
  \/ HandlerMergeReturned
  \/ IssueRequest
  \/ ReadFails
  \/ RequestSucceeds
  \/ RequestFails
  \/ SleepDone
  \/ HandlerSaveResults
  \/ HandlerSaveFails
  \/ HandlerAnalysisThrew

SpecHandler == InitHandler /\ [][NextHandler]_vars

\* ------------------------------------------------------------------ claims
\* vocabulary of the claims, stated over what an attempt observed
StatusIsTransient(e) == e.status \in {429, 500, 503}
QuotaSignalled(e) == e.type = "insufficient_quota" \/ e.message = QuotaMessage
AttemptFailed == fails' = fails + 1
RetriedAfterFailure == pc' = "sleeping"

\* C1 (as stated): a failed attempt is followed by another attempt if and only
\* if its status is 429, 500 or 503 and fewer than maxRetries retries were made.
C1_AsStated ==
  [][AttemptFailed =>
       (RetriedAfterFailure <=> (StatusIsTransient(lastError') /\ retries < maxRetries))]_vars

\* C1 (amended): a failed attempt is followed by another attempt if and only if
\* the error is not a quota signal, its status is 429, 500 or 503 and fewer than
\* maxRetries retries were made; one call makes at most maxRetries+1 remote
\* requests and issues at most maxRetries backoff delays.
C1_RetryIffTransientNonQuota ==
  /\ [][AttemptFailed =>
          (RetriedAfterFailure <=>
             (~QuotaSignalled(lastError') /\ StatusIsTransient(lastError')
                /\ retries < maxRetries))]_vars
  /\ [](requests <= maxRetries + 1 /\ Len(delays) <= maxRetries /\ retries = Len(delays))

\* a quota failure with status 429 and retries left ended the call
C1_Witness ==
  /\ pc = "threw" /\ lastError.status = 429 /\ QuotaSignalled(lastError)
  /\ retries < maxRetries /\ requests = 2 /\ Len(delays) = 1

\* C2: a failure with a quota signal ends the call at once with an error named
\* QuotaExceededError: no delay, no retry counted, no further request, whatever
\* the status and the retries left; generic terminal failures carry another name.
C2_QuotaEndsCallAtOnce ==
  /\ [][(AttemptFailed /\ QuotaSignalled(lastError')) =>
          /\ pc' = "threw"
          /\ callResult'.name = "QuotaExceededError"
          /\ UNCHANGED <<retries, delays, requests>>]_vars
  /\ [][pc = "threw" => UNCHANGED <<retries, delays, requests, attempts>>]_vars
  /\ []((pc = "threw" /\ ~QuotaSignalled(lastError)) => callResult.name # "QuotaExceededError")

\* a 429 whose message mentions the quota, with retries left, raised QuotaExceededError
C2_Witness ==
  /\ pc = "threw" /\ callResult.name = "QuotaExceededError"
  /\ lastError.status = 429 /\ lastError.type = "server_error"
  /\ lastError.message = QuotaMessage
  /\ retries = 0 /\ maxRetries = DefaultMaxRetries /\ delays = <<>> /\ requests = 1

\* C3: the k-th backoff delay equals initialDelay * 2^(k-1); it is issued after
\* the k-th retryable failure and before attempt k+1 starts, and no attempt
\* starts while a delay is pending.
C3_BackoffSchedule ==
  /\ [](\A k \in 1..Len(delays) : delays[k] = initialRetryDelay * Pow2(k - 1))
  /\ [][Len(delays') = Len(delays) + 1 =>
          /\ pc' = "sleeping"
          /\ plainRetryable' = Len(delays') /\ attempts' = Len(delays')]_vars
  /\ [][attempts' = attempts + 1 => (pc = "attempting" /\ Len(delays) = attempts)]_vars
  /\ [][pc = "sleeping" => (pc' = "attempting" /\ UNCHANGED <<attempts, requests>>)]_vars

\* the third delay of a call with the default initial delay is pending
C3_Witness ==
  /\ pc = "sleeping" /\ initialRetryDelay = DefaultInitialRetryDelay
  /\ delays = <<1000, 2000, 4000>> /\ attempts = 3

\* C4: when the remote call failed f times with a retryable status and then
\* succeeded, exactly f delays were issued, their sum is initialDelay * (2^f - 1),
\* and the call returns what the successful response carried.
C4_DelaysBeforeSuccess ==
  pc = "returned" =>
    /\ Len(delays) = fails
    /\ plainRetryable = fails
    /\ fails <= maxRetries
    /\ SumSeq(delays) = initialRetryDelay * (Pow2(fails) - 1)
    /\ requests = fails + 1
    /\ (variant = "root" /\ lastContent # NullContent => callResult = RawText(lastContent))
    /\ (variant = "services" => callResult = NormalizeContent(lastContent))

\* two 503 failures, then a success: two delays, 1000 + 2000
C4_Witness ==
  /\ pc = "returned" /\ fails = 2 /\ lastError.status = 503
  /\ initialRetryDelay = DefaultInitialRetryDelay
  /\ delays = <<1000, 2000>> /\ lastContent = <<"{", "k", "}">>

\* C5: a failure that is not a quota signal and whose status is not 429/500/503,
\* or that comes when maxRetries retries were already made, ends the call by
\* raising that very error (the one of the last attempt), with no delay after it.
C5_TerminalErrorVerbatim ==
  /\ [][(AttemptFailed /\ ~QuotaSignalled(lastError')
           /\ (~StatusIsTransient(lastError') \/ retries >= maxRetries)) =>
          /\ pc' = "threw"
          /\ callResult' = lastError'
          /\ callResult'.seq = attempts'
          /\ UNCHANGED <<delays, retries>>]_vars
  /\ [][pc = "threw" => UNCHANGED <<delays, callResult>>]_vars

\* a 503 on the attempt after the last allowed retry was raised as it came
C5_Witness ==
  /\ pc = "threw" /\ maxRetries = 2 /\ retries = 2 /\ attempts = 3
  /\ lastError.status = 503 /\ ~QuotaSignalled(lastError)
  /\ callResult = lastError /\ callResult.seq = 3

\* C6: analyzeMultipleImages returns a list as long as its input whose i-th item
\* carries the i-th path and exactly one of data (the call returned) or error
\* (the call threw); items already recorded are never removed, moved or changed.
C6_BatchIsolation ==
  /\ [](pc = "batchReturned" =>
          /\ Len(results) = Len(imagePaths)
          /\ \A i \in 1..Len(results) :
               /\ results[i].path = imagePaths[i]
               /\ DOMAIN results[i] \in {{"path", "data"}, {"path", "error"}})
  /\ [][/\ Len(results') \in {Len(results), Len(results) + 1}
        /\ \A i \in 1..Len(results) : results'[i] = results[i]
        /\ (Len(results') = Len(results) + 1 =>
              LET item == results'[Len(results')]
              IN  /\ pc \in {"returned", "threw"}
                  /\ item.path = imagePaths[idx]
                  /\ (pc = "returned" => DOMAIN item = {"path", "data"} /\ item.data = callResult)
                  /\ (pc = "threw" => DOMAIN item = {"path", "error"} /\ item.error # ""))]_vars

\* a batch of two returned with the first item failed and the second analysed
C6_Witness ==
  /\ pc = "batchReturned" /\ Len(imagePaths) = 2
  /\ DOMAIN results[1] = {"path", "error"} /\ DOMAIN results[2] = {"path", "data"}
  /\ imagePaths[1] # imagePaths[2]


\* shapes of content the claims speak of
NonBlank(c) == SelectSeq(c, LAMBDA t : t # "W")
JsonObjectTokens == {<<"{", "}">>, <<"{", "k", "}">>}
IsBareObject(c) == c # NullContent /\ NonBlank(c) \in JsonObjectTokens
FencedBody(c) ==
  LET mid == SubSeq(c, 2, Len(c) - 1)
  IN  IF mid # <<>> /\ Head(mid) = "J" THEN Tail(mid) ELSE mid
IsFencedObject(c) ==
  /\ c # NullContent /\ Len(c) >= 3
  /\ c[1] = "F" /\ c[Len(c)] = "F"
  /\ NonBlank(FencedBody(c)) \in JsonObjectTokens
IsProse(c) ==
  /\ c # NullContent /\ c # <<>>
  /\ \A i \in 1..Len(c) : c[i] \in {"x", "W", "J"}
SuccessfulResponse == pc = "inflight" /\ fails' = fails

\* C7 (as stated): whenever the remote call succeeds with text content the call
\* succeeds; fenced JSON and bare JSON objects yield the parsed object and
\* unparseable content the raw string; no raise, retry or delay follows a
\* parse failure.
C7_AsStated ==
  (pc = "returned" /\ lastContent # NullContent /\ lastContent # <<>>) =>
    /\ (IsFencedObject(lastContent) =>
          callResult = [kind |-> "json", text |-> NonBlank(FencedBody(lastContent))])
    /\ (IsBareObject(lastContent) =>
          callResult = [kind |-> "json", text |-> NonBlank(lastContent)])
    /\ (IsProse(lastContent) => callResult = [kind |-> "raw", text |-> lastContent])

\* C7 (amended): a successful response with non-empty text always makes the call
\* return, with no retry and no delay.  The services loader returns the parsed
\* object for a fenced JSON object and for a bare JSON object, and the raw
\* content unchanged whenever it returns text; the root loader returns the raw
\* content unchanged in every case.
C7_NormalisationPerLoader ==
  /\ []((pc = "returned" /\ lastContent # NullContent /\ lastContent # <<>>) =>
          /\ (variant = "services" =>
                /\ (IsFencedObject(lastContent) =>
                      callResult = [kind |-> "json", text |-> NonBlank(FencedBody(lastContent))])
                /\ (IsBareObject(lastContent) =>
                      callResult = [kind |-> "json", text |-> NonBlank(lastContent)])
                /\ (IsProse(lastContent) => callResult.kind = "raw")
                /\ callResult.kind \in {"json", "raw"}
                /\ (callResult.kind = "raw" => callResult.text = lastContent))
          /\ (variant = "root" => callResult = [kind |-> "raw", text |-> lastContent]))
  /\ [][SuccessfulResponse =>
          (pc' = "returned" /\ UNCHANGED <<retries, delays, requests, attempts>>)]_vars

\* the services loader answered a fenced JSON object, on the attempt after a
\* retry, with the parsed object
C7_Witness ==
  /\ pc = "returned" /\ variant = "services" /\ retries = 1
  /\ lastContent = <<"F", "J", "W", "{", "k", "}", "W", "F">>
  /\ callResult = [kind |-> "json", text |-> <<"{", "k", "}">>]


\* sums and maxima the layout claims are stated with
SumFirst(xs, i) == SumSeq(SubSeq(xs, 1, i))
LargestOf(xs) == CHOOSE m \in {xs[i] : i \in 1..Len(xs)} : \A i \in 1..Len(xs) : xs[i] <= m
ImgWidths == [i \in 1..Len(images) |-> images[i].width]
ImgHeights == [i \in 1..Len(images) |-> images[i].height]

\* C8: the vertical merge creates a canvas of width max(widths) and height
\* sum(heights) + margin * (n-1), and places image i at top = heights of the
\* images before it + i * margin (i from 0) and left = floor((canvasWidth - width_i) / 2).
C8_VerticalLayout ==
  layout = "vertical" =>
    LET n == Len(images)
    IN  /\ canvas.width = LargestOf(ImgWidths)
        /\ canvas.height = SumSeq(ImgHeights) + margin * (n - 1)
        /\ Len(composite) = n
        /\ \A i \in 1..n :
             /\ composite[i].top = SumFirst(ImgHeights, i - 1) + (i - 1) * margin
             /\ composite[i].left = (canvas.width - images[i].width) \div 2

\* three stacked images of different widths with a margin between them
C8_Witness ==
  /\ layout = "vertical" /\ Len(images) = 3 /\ margin = 1
  /\ images[1].width = 3 /\ images[2].width = 1 /\ images[3].width = 2
  /\ composite[2].left = 1 /\ composite[3].left = 0
  /\ composite[3].top = images[1].height + images[2].height + 2

\* C9: the horizontal merge without maxImagesPerRow creates a canvas of height
\* max(heights) and width sum(widths) + margin * (n-1), and places image i at
\* left = widths of the images before it + i * margin (i from 0) and
\* top = floor((canvasHeight - height_i) / 2).
C9_HorizontalLayout ==
  layout = "horizontal" =>
    LET n == Len(images)
    IN  /\ canvas.height = LargestOf(ImgHeights)
        /\ canvas.width = SumSeq(ImgWidths) + margin * (n - 1)
        /\ Len(composite) = n
        /\ \A i \in 1..n :
             /\ composite[i].left = SumFirst(ImgWidths, i - 1) + (i - 1) * margin
             /\ composite[i].top = (canvas.height - images[i].height) \div 2

\* three images side by side, of different heights, with a margin between them
C9_Witness ==
  /\ layout = "horizontal" /\ Len(images) = 3 /\ margin = 1
  /\ images[1].height = 1 /\ images[2].height = 3 /\ images[3].height = 2
  /\ composite[1].top = 1 /\ composite[2].top = 0
  /\ composite[3].left = images[1].width + images[2].width + 2

RECURSIVE Flatten(_)
Flatten(rows) == IF rows = <<>> THEN <<>> ELSE Head(rows) \o Flatten(Tail(rows))

\* C10: the grid merge of n images with maxImagesPerRow = k splits them, in
\* input order, into ceil(n/k) rows, all of k images but the last, which holds
\* 1..k; a row is as high as its highest image and as wide as its widths plus
\* the margins between neighbours; the canvas is as wide as the widest row and
\* as high as the row heights plus margin * (rowCount - 1).
C10_GridRows ==
  layout = "grid" =>
    LET n == Len(images)
        k == maxImagesPerRow
        rc == Len(imagesByRow)
        RowW(r) == [i \in 1..Len(imagesByRow[r]) |-> imagesByRow[r][i].width]
        RowH(r) == [i \in 1..Len(imagesByRow[r]) |-> imagesByRow[r][i].height]
    IN  /\ rc * k >= n /\ (rc - 1) * k < n
        /\ \A r \in 1..(rc - 1) : Len(imagesByRow[r]) = k
        /\ Len(imagesByRow[rc]) \in 1..k
        /\ Flatten(imagesByRow) = images
        /\ Len(rowDimensions) = rc
        /\ \A r \in 1..rc :
             /\ rowDimensions[r].height = LargestOf(RowH(r))
             /\ rowDimensions[r].width = SumSeq(RowW(r)) + margin * (Len(imagesByRow[r]) - 1)
        /\ canvas.width = LargestOf([r \in 1..rc |-> rowDimensions[r].width])
        /\ canvas.height =
             SumSeq([r \in 1..rc |-> rowDimensions[r].height]) + margin * (rc - 1)

\* three images, two per row: a full row and a shorter last row
C10_Witness ==
  /\ layout = "grid" /\ Len(images) = 3 /\ maxImagesPerRow = 2 /\ margin = 1
  /\ Len(imagesByRow) = 2 /\ Len(imagesByRow[1]) = 2 /\ Len(imagesByRow[2]) = 1
  /\ images[1].height = 1 /\ images[2].height = 3 /\ images[3].height = 2
  /\ canvas.height = 6


\* the rectangle image i occupies on the canvas; composite lists the images in
\* input order in every layout mode
Rect(i) ==
  [left |-> composite[i].left, top |-> composite[i].top,
   right |-> composite[i].left + images[i].width,
   bottom |-> composite[i].top + images[i].height]
Disjoint(a, b) ==
  \/ a.right <= b.left \/ b.right <= a.left
  \/ a.bottom <= b.top \/ b.bottom <= a.top
Merged == layout \in {"vertical", "horizontal", "grid"}

\* C11: in every layout mode, the rectangles of two distinct placed images do
\* not overlap, and every input image is placed exactly once.
C11_NoOverlap ==
  Merged =>
    /\ Len(composite) = Len(images)
    /\ \A i, j \in 1..Len(images) : i # j => Disjoint(Rect(i), Rect(j))

\* a grid of two rows with no margin: images touch, none overlaps
C11_Witness ==
  /\ layout = "grid" /\ Len(images) = 3 /\ maxImagesPerRow = 2 /\ margin = 0
  /\ images[1].height = 3 /\ images[2].height = 1 /\ images[3].width = 3
  /\ composite[2].top = 1 /\ composite[3].top = 3 /\ composite[3].left = 0

\* the largest of a non-empty set of numbers
Largest(S) == CHOOSE m \in S : \A x \in S : x <= m

\* C12: in every layout mode every placed image lies inside the canvas, and the
\* canvas is the smallest such box: some image reaches its right edge and some
\* image reaches its bottom edge.
C12_MinimalCanvas ==
  Merged =>
    /\ \A i \in 1..Len(images) :
         /\ 0 <= Rect(i).left /\ Rect(i).right <= canvas.width
         /\ 0 <= Rect(i).top /\ Rect(i).bottom <= canvas.height
    /\ Largest({Rect(i).right : i \in 1..Len(images)}) = canvas.width
    /\ Largest({Rect(i).bottom : i \in 1..Len(images)}) = canvas.height

\* a grid whose second row is the wider one and whose last image is centred
C12_Witness ==
  /\ layout = "grid" /\ Len(images) = 3 /\ maxImagesPerRow = 1 /\ margin = 1
  /\ images[1].width = 1 /\ images[2].width = 3 /\ images[3].width = 2
  /\ canvas.width = 3
  /\ canvas.height = images[1].height + images[2].height + images[3].height + 2


\* what the folder claims speak of
Returned == "success" \in DOMAIN mergeResult
NoImageFileListed == \A i \in 1..Len(files) : files[i].ext \notin {".jpeg", ".PNG"}
SomeImageUndecodable ==
  \E i \in 1..Len(files) : files[i].ext \in {".jpeg", ".PNG"} /\ ~files[i].decodable

\* C13: mergeImagesInFolder always ends with a result; a missing directory, a
\* directory without .jpg/.jpeg/.png file and an image that fails to decode each
\* give success = false with a non-empty error, no outputPath and no file
\* written; success = true always comes with an outputPath and no error.
C13_FolderFailuresReported ==
  Returned =>
    /\ (mergeResult.success =>
          DOMAIN mergeResult = {"success", "outputPath"} /\ written # NoFile)
    /\ (~mergeResult.success =>
          /\ DOMAIN mergeResult = {"success", "error"}
          /\ mergeResult.error # ""
          /\ written = NoFile)
    /\ ((~folderExists \/ NoImageFileListed \/ SomeImageUndecodable) => ~mergeResult.success)

\* a directory with a good image and one that cannot be decoded
C13_Witness ==
  /\ Returned /\ ~mergeResult.success /\ folderExists /\ Len(files) = 2
  /\ files[1].decodable /\ files[1].ext = ".jpeg"
  /\ ~files[2].decodable /\ files[2].ext = ".PNG"
  /\ written = NoFile

\* C14: the composite written is encoded in the requested outputFormat, so the
\* encoding of the file agrees with the extension of its path.
C14_EncodingIsOutputFormat ==
  written # NoFile => (written.encoding = outputFormat /\ written.encoding = written.ext)


\* C15: in one run of processImages the quotaExceeded flag starts false; once the
\* analysis of a user folder fails with a quota error it is set and never
\* cleared, no remote analysis call is made for a later folder, and each later
\* folder's result is the single entry "Skipped due to API quota limit".
C15_QuotaFlagLatches ==
  /\ [](mstage \in {"start", "merge"} => ~quotaExceeded)
  /\ [][quotaExceeded => quotaExceeded']_vars
  /\ [][(mstage = "awaiting" /\ pc = "threw" /\ callResult.name = "QuotaExceededError"
           /\ mi' = mi + 1) => quotaExceeded']_vars
  /\ [][quotaExceeded => UNCHANGED <<pc, requests, attempts>>]_vars
  /\ [][(quotaExceeded /\ mi' = mi + 1) =>
          /\ userFolders[mi] \in DOMAIN allResults'
          /\ allResults'[userFolders[mi]] =
            <<[image |-> userFolders[mi], error |-> "Skipped due to API quota limit"]>>]_vars

\* the first of two folders ran out of quota, the second was skipped without a call
C15_Witness ==
  /\ mstage = "done" /\ quotaExceeded /\ Len(userFolders) = 2
  /\ DOMAIN allResults = {1, 2}
  /\ allResults[1] = <<[image |-> 1, error |-> "OpenAI API quota exceeded"]>>
  /\ allResults[2] = <<[image |-> 2, error |-> "Skipped due to API quota limit"]>>
  /\ mergedExists[2]

\* C18: when processImages writes results.json, the results object has one key
\* per user folder found, each with exactly one entry that carries an analysis
\* or an error message, the folders without merged image included.
C18_EveryFolderReported ==
  resultsFile.written =>
    /\ DOMAIN resultsFile.content = {userFolders[i] : i \in 1..Len(userFolders)}
    /\ \A f \in DOMAIN resultsFile.content :
         /\ Len(resultsFile.content[f]) = 1
         /\ DOMAIN resultsFile.content[f][1] \in {{"image", "analysis"}, {"image", "error"}}


\* an item has reached Success or Terminal-Failure
ItemSettled == pc \in {"returned", "threw"}

\* an item is being worked on: attempt, request in flight or backoff delay
ItemInProgress == pc \in {"attempting", "inflight", "sleeping"}

\* C16: analyzeMultipleImages processes its items one after another in input
\* order: while item idx is in progress exactly the idx - 1 items before it
\* have a result, in input order; the batch moves to the next item only from
\* Success or Terminal-Failure of the current one (never during a retry or a
\* backoff delay), so a request for item i+1 is issued only after item i is
\* settled and one request at most is in flight.
C16_ItemsOneAfterAnother ==
  /\ [](\A i \in 1..Len(results) : results[i].path = imagePaths[i])
  /\ [](ItemInProgress \/ ItemSettled =>
          idx <= Len(imagePaths) /\ Len(results) = idx - 1)
  /\ [][idx' # idx => idx' = idx + 1 /\ ItemSettled /\ Len(results') = idx]_vars
  /\ [][pc' = "inflight" /\ pc # "inflight" =>
          pc = "attempting" /\ idx' = idx /\ Len(results) = idx - 1]_vars

\* the second item's request is in flight after a retry, the first item settled
C16_Witness ==
  /\ idx = 2 /\ pc = "inflight" /\ retries >= 1 /\ Len(results) = 1
  /\ results[1].path = imagePaths[1]

\* a result item recording a quota failure
IsQuotaItem(item) ==
  "error" \in DOMAIN item /\ item.error = "OpenAI API quota exceeded. Please check your billing details"

\* C19: in analyzeMultipleImages, once an item has failed with QuotaExceededError
\* no remote request is made for the remaining items of the batch.
C19_NoRequestAfterQuota ==
  ~(pc = "inflight" /\ \E i \in 1..Len(results) : IsQuotaItem(results[i]))


\* C17: the retry counter belongs to one analyzeImage invocation. Every
\* invocation starts with zero retries and no delay; its k-th delay is
\* initialRetryDelay * 2^(k-1) and it has as many delays as retries, at most
\* maxRetries, whatever the other invocations on the loader did; a step of one
\* invocation leaves the others as they were; and an invocation gives up on a
\* transient error only when its own retries are used up.
C17_RetriesPerInvocation ==
  /\ [](\A c \in DOMAIN calls :
          /\ calls[c].retries = Len(calls[c].delays)
          /\ calls[c].retries <= maxRetries
          /\ \A k \in 1..Len(calls[c].delays) :
               calls[c].delays[k] = initialRetryDelay * Pow2(k - 1))
  /\ [][\A c \in DOMAIN calls :
          calls[c].pc = "notStarted" /\ calls'[c].pc # "notStarted" =>
            calls'[c].retries = 0 /\ calls'[c].delays = <<>>]_vars
  /\ [][\A c, d \in DOMAIN calls :
          c # d /\ calls'[c] # calls[c] => calls'[d] = calls[d]]_vars
  /\ [][\A c \in DOMAIN calls :
          calls[c].pc # "threw" /\ calls'[c].pc = "threw" /\ calls'[c].lastTransient =>
            calls[c].retries = maxRetries]_vars

\* one invocation has used two retries while another, started later, is on
\* its first
C17_Witness ==
  /\ Len(calls) >= 2
  /\ calls[1].retries = 2 /\ calls[1].pc = "sleeping"
  /\ calls[2].retries = 1 /\ calls[2].pc = "sleeping"
  /\ calls[2].delays = <<initialRetryDelay>>


\* the state of the call as the specification names it
CallState ==
  CASE pc \in {"attempting", "inflight"} -> "Attempting"
    [] pc = "sleeping" -> "Retryable-Failure"
    [] pc = "returned" -> "Success"
    [] pc = "threw" -> "Terminal-Failure"
    [] OTHER -> "no call"

\* the changes of call state the specification allows
AllowedTransitions ==
  {<<"no call", "Attempting">>,
   <<"Attempting", "Success">>,
   <<"Attempting", "Retryable-Failure">>,
   <<"Retryable-Failure", "Attempting">>,
   <<"Attempting", "Terminal-Failure">>,
   <<"Success", "no call">>,
   <<"Terminal-Failure", "no call">>}

\* C20: if every request and every backoff delay completes, each analyzeImage
\* call reaches Success or Terminal-Failure and the batch over a finite list
\* returns; a call changes state only Attempting -> Success, Attempting ->
\* Retryable-Failure -> Attempting and Attempting -> Terminal-Failure, and a
\* call in Success or Terminal-Failure is over.
C20_CallsTerminate ==
  /\ (CallState = "Attempting") ~> (CallState \in {"Success", "Terminal-Failure"})
  /\ (CallState = "Retryable-Failure") ~> (CallState \in {"Success", "Terminal-Failure"})
  /\ <>[](pc = "batchReturned" /\ Len(results) = Len(imagePaths))
  /\ [][CallState' # CallState => <<CallState, CallState'>> \in AllowedTransitions]_vars
  /\ [][(CallState \in {"Success", "Terminal-Failure"}) =>
          UNCHANGED <<callResult, retries, delays, requests>>]_vars

\* a call that went through every retry and then failed for good
C20_Witness ==
  /\ maxRetries = 3 /\ retries = 3 /\ requests = 4
  /\ CallState = "Terminal-Failure" /\ Len(imagePaths) = 2 /\ idx = 2


\* the request carries no usable user id
IdMissing ==
  \/ userId.kind = "absent"
  \/ userId.kind = "string" /\ \A i \in 1..Len(userId.text) : userId.text[i] = "W"

\* the user directory lists no file the handler counts as an image
NoListedImage ==
  \A i \in 1..Len(files) :
    files[i].ext \notin {".jpg", ".jpeg", ".png", ".PNG", ".gif", ".webp", ".svg"}

\* neither a merge nor an analysis was started, nothing was written
NothingStarted ==
  /\ layout = "notCalled" /\ images = <<>>
  /\ "pending" \in DOMAIN mergeResult /\ written.ext = ""
  /\ pc = "idle" /\ requests = 0 /\ attempts = 0

\* the results file is what it was before the request
ResultsFileUntouched == userResultsFile.state \in {"absent", "stale"}

MergeSucceeded == "success" \in DOMAIN mergeResult /\ mergeResult.success
MergeGaveUp == "success" \in DOMAIN mergeResult /\ ~mergeResult.success

\* the response was produced by a test of the handler, not by its catch block
Answered(status) ==
  response.sent =>
    /\ ~response.success
    /\ response.message # "Error processing images" => response.status = status

\* C21: in the POST handler that merges then analyzes, no merge and no remote
\* request happens when the user id is missing (400), the user directory is
\* missing (404), no image file is found (404) or the API key is not configured
\* (500); a remote request is issued only after the merge returned success;
\* the results file is written and 200 with success = true is sent only after
\* the analysis returned without raising; on a merge failure or an analysis
\* error the response has success = false and the results file is unchanged.
C21_HandlerOrder ==
  /\ [](IdMissing => NothingStarted /\ ResultsFileUntouched /\ Answered(400))
  /\ [](userId.kind = "string" /\ ~IdMissing /\ ~folderExists =>
          NothingStarted /\ ResultsFileUntouched /\ Answered(404))
  /\ [](userId.kind = "string" /\ ~IdMissing /\ folderExists /\ NoListedImage =>
          NothingStarted /\ ResultsFileUntouched /\ Answered(404))
  /\ [](userId.kind = "string" /\ ~IdMissing /\ folderExists /\ ~NoListedImage
          /\ ~openaiApiKey =>
          NothingStarted /\ ResultsFileUntouched /\ Answered(500))
  /\ [](pc # "idle" \/ requests > 0 => MergeSucceeded /\ written.ext = "jpeg")
  /\ [][requests' # requests => MergeSucceeded /\ ~response.sent]_vars
  /\ [][userResultsFile' # userResultsFile =>
          pc = "returned" /\ MergeSucceeded /\ ~response.sent]_vars
  /\ [](response.sent /\ response.success =>
          /\ response.status = 200
          /\ pc = "returned" /\ MergeSucceeded
          /\ userResultsFile = [state |-> "written", content |-> response.data]
          /\ response.data.analysis = callResult)
  /\ [](response.sent /\ response.status = 200 => response.success)
  /\ [](response.sent /\ (MergeGaveUp \/ pc = "threw") =>
          ~response.success /\ response.status = 500 /\ ResultsFileUntouched)
  /\ [](MergeGaveUp => pc = "idle" /\ requests = 0)

\* a folder with two images and a .gif was merged, the analysis succeeded on
\* its second request, the file was written over an older one and 200 sent
C21_Witness ==
  /\ response.sent /\ response.status = 200
  /\ Len(files) = 3 /\ Len(images) = 2 /\ layout = "grid"
  /\ retries = 1 /\ requests = 2
  /\ userResultsFile.state = "written"


====
